---- MODULE Spec2Model ----
(***************************************************************************)
(* Car Home Services API (src/main.py, src/schemas.py): the quote engine,  *)
(* the service-area check, booking creation, the booking status update and *)
(* the seeding of the service catalog by list_services.                    *)
(*                                                                         *)
(* Encoding.  Money is in cents, a package multiplier in tenths, so a      *)
(* subtotal is in thousandths of a currency unit.  A distance is in        *)
(* millimetres.  An optional value (a key of a JSON payload that may be    *)
(* missing or null, Python's None) is a sequence of length at most one:    *)
(* None is << >> and a present value x is << x >>.  An HTTP response is a  *)
(* record with its status code in "code".                                  *)
(***************************************************************************)
EXTENDS Integers, Sequences, FiniteSets, TLC

\* ---------------------------------------------------------------- bounds
\* Number of clients that call GET /api/services concurrently.
NumCallers == 2
\* Longest list of add-on codes a request carries.
MaxAddons == 3
\* Most documents the booking collection holds.
MaxBookings == 3

\* ------------------------------------------------------- optional values
None == << >>
Some(x) == << x >>
IsNone(o) == o = << >>
Val(o) == o[1]

\* dict.get(key, default)
Get(doc, key, default) == IF key \in DOMAIN doc THEN doc[key] ELSE default

\* ------------------------------------------------ pricing configuration
\* The four service types of schemas.ServiceType.
ServiceType == {"Car Wash", "Small Repair", "Tyre Puncture", "General Servicing"}

\* PRICING_PACKAGES: service name -> ordered packages, multiplier in tenths.
PRICING_PACKAGES ==
  [n \in ServiceType |->
     CASE n = "Car Wash" ->
            << [name |-> "Basic", multiplier |-> 10],
               [name |-> "Premium", multiplier |-> 14],
               [name |-> "Detailing", multiplier |-> 20] >>
       [] n = "Small Repair" ->
            << [name |-> "Standard", multiplier |-> 10],
               [name |-> "Extended", multiplier |-> 15] >>
       [] n = "Tyre Puncture" ->
            << [name |-> "Patch", multiplier |-> 10],
               [name |-> "Spare Change", multiplier |-> 12] >>
       [] OTHER ->
            << [name |-> "Basic", multiplier |-> 10],
               [name |-> "Plus", multiplier |-> 13],
               [name |-> "Complete", multiplier |-> 18] >>]

\* PRICING_ADDONS: ordered add-ons, price in cents.
PRICING_ADDONS ==
  << [code |-> "pickup_drop", price |-> 800],
     [code |-> "sanitization", price |-> 1000],
     [code |-> "engine_check", price |-> 1200] >>

\* --------------------------------------------------------- service area
\* DEFAULT_SERVICE_AREA["radius_km"], 25 km, in millimetres.
radius_km == 25000000

\* The coordinates requests carry: (latitude, longitude) as sent.
Center == << "28.6139", "77.2090" >>
PointBoundary == << "28.838703113229293", "77.20500556874008" >>
PointOutside == << "28.8388", "77.2090" >>
PointNear == << "28.7", "77.3" >>
Points == {Center, PointNear, PointBoundary, PointOutside}

\* haversine_km from the service-area center, tabulated on Points: the value
\* the source's formula returns in IEEE doubles (0.0, 13.05758340591795,
\* 25.0 and 25.00773900236105 km), cut to whole millimetres.
haversine_km(lat, lng) ==
  CASE << lat, lng >> = Center -> 0
    [] << lat, lng >> = PointNear -> 13057583
    [] << lat, lng >> = PointBoundary -> 25000000
    [] << lat, lng >> = PointOutside -> 25007739

\* float(x) succeeds on the coordinate strings of Points only.
Latitudes == {p[1] : p \in Points}
Longitudes == {p[2] : p \in Points}
IsFloat(o) == ~IsNone(o) /\ Val(o) \in (Latitudes \cup Longitudes)

\* round(x, 2) of a value in thousandths, to cents (ties to even).
Round2(mills) ==
  LET q == mills \div 10
      r == mills % 10
  IN  IF r < 5 THEN q
      ELSE IF r > 5 THEN q + 1
      ELSE IF q % 2 = 0 THEN q ELSE q + 1

\* round(distance_km, 2) of a distance in millimetres, to units of 10 m.
RoundKm2(mm) ==
  LET q == mm \div 10000
      r == mm % 10000
  IN  IF r < 5000 THEN q
      ELSE IF r > 5000 THEN q + 1
      ELSE IF q % 2 = 0 THEN q ELSE q + 1

\* ----------------------------------------------------------- quote engine
\* The loop of compute_quote over the packages: the first package whose
\* name is package_name, or None.
RECURSIVE FindPackage(_, _)
FindPackage(packages, package_name) ==
  IF packages = << >> THEN None
  ELSE IF Head(packages).name = package_name THEN Some(Head(packages))
  ELSE FindPackage(Tail(packages), package_name)

\* next((a for a in PRICING_ADDONS if a["code"] == code), None)
RECURSIVE FindAddon(_, _)
FindAddon(addons, code) ==
  IF addons = << >> THEN None
  ELSE IF Head(addons).code = code THEN Some(Head(addons))
  ELSE FindAddon(Tail(addons), code)

\* AppliedAddons with repeated codes applied once only.
RECURSIVE AppliedAddonsOnce(_)
AppliedAddonsOnce(selected) ==
  IF selected = << >> THEN << >>
  ELSE LET addon == FindAddon(PRICING_ADDONS, selected[Len(selected)])
           front == AppliedAddonsOnce(SubSeq(selected, 1, Len(selected) - 1))
       IN  IF IsNone(addon) \/ \E i \in DOMAIN front : front[i] = Val(addon)
           THEN front
           ELSE Append(front, Val(addon))

\* The loop of compute_quote over the selected codes: the matched add-ons,
\* one per occurrence, in input order.
RECURSIVE AppliedAddons(_)
AppliedAddons(selected) ==
  IF selected = << >> THEN << >>
  ELSE LET addon == FindAddon(PRICING_ADDONS, Head(selected))
       IN  IF IsNone(addon) THEN AppliedAddons(Tail(selected))
           ELSE << Val(addon) >> \o AppliedAddons(Tail(selected))

RECURSIVE AddonsPrice(_)
AddonsPrice(applied) ==
  IF applied = << >> THEN 0
  ELSE Head(applied).price + AddonsPrice(Tail(applied))

\* A package name is truthy when it is neither None nor the empty string.
Truthy(package_name) == ~IsNone(package_name) /\ Val(package_name) # ""

\* PackagesOf searching the packages of every service.
PackagesOfAny(svc_name) ==
  PRICING_PACKAGES["Car Wash"] \o PRICING_PACKAGES["Small Repair"]
    \o PRICING_PACKAGES["Tyre Puncture"] \o PRICING_PACKAGES["General Servicing"]

\* The packages compute_quote searches: those of the service's own name.
PackagesOf(svc_name) ==
  IF svc_name \in DOMAIN PRICING_PACKAGES THEN PRICING_PACKAGES[svc_name] ELSE << >>

\* The subtotal of compute_quote, in thousandths.
Subtotal(base_price, multiplier, addons_price) ==
  base_price * multiplier + addons_price * 10

compute_quote(service_doc, package_name, selected_addons) ==
  LET base_price == Get(service_doc, "base_price", 0)
      packages == PackagesOf(Get(service_doc, "name", ""))
      applied_package ==
        IF Truthy(package_name) THEN FindPackage(packages, Val(package_name))
        ELSE None
      multiplier ==
        IF IsNone(applied_package) THEN 10 ELSE Val(applied_package).multiplier
      selected == IF IsNone(selected_addons) THEN << >> ELSE Val(selected_addons)
      applied_addons == AppliedAddons(selected)
      subtotal == Subtotal(base_price, multiplier, AddonsPrice(applied_addons))
  IN  [base_price |-> base_price,
       multiplier |-> multiplier,
       package |-> applied_package,
       addons |-> applied_addons,
       total |-> Round2(subtotal)]

\* ------------------------------------------------------------------ state
\* db: whether the database handle is configured (db is not None).
\* service: the documents of db["service"], in insertion order.
\* booking: the documents of db["booking"], in insertion order.
\* pc: where each concurrent caller of list_services stands.
\* req, resp: the request whose handler ran last and the response it got,
\*   until the response is delivered; requests are observed one at a time.
VARIABLES db, service, booking, pc, req, resp

vars == << db, service, booking, pc, req, resp >>

Callers == 1..NumCallers

\* No request is under observation.
NoRequest == [op |-> "none"]
NoResponse == [code |-> 0]

\* The documents list_services inserts when it finds no active service.
seed ==
  << [name |-> "Car Wash", base_price |-> 2500, is_active |-> TRUE],
     [name |-> "Small Repair", base_price |-> 4000, is_active |-> TRUE],
     [name |-> "Tyre Puncture", base_price |-> 1500, is_active |-> TRUE],
     [name |-> "General Servicing", base_price |-> 7000, is_active |-> TRUE] >>

\* The catalogs the service collection may hold when the process starts:
\* none yet, the defaults, a single retired service, and a catalog an
\* operator edited (a retired record ahead of its replacement, a free one).
InitialCatalogs ==
  { << >>,
    seed,
    << [name |-> "Car Wash", base_price |-> 1999, is_active |-> FALSE] >>,
    << [name |-> "Car Wash", base_price |-> 1999, is_active |-> TRUE],
       [name |-> "Small Repair", base_price |-> 4000, is_active |-> FALSE],
       [name |-> "Tyre Puncture", base_price |-> 0, is_active |-> TRUE] >> }

\* An ObjectId in its 24-character hexadecimal form, one character per item.
HexDigits == {"0", "1", "2", "3", "4", "5", "6", "7", "8", "9",
              "a", "b", "c", "d", "e", "f", "A", "B", "C", "D", "E", "F"}
Repeat(c, n) == [i \in 1..n |-> c]
Oid1 == Repeat("a", 24)
Oid2 == Repeat("b", 24)
Oid3 == Repeat("c", 24)
\* bson's ObjectId(s) of a str: accepted only with 24 hexadecimal characters.
ObjectIdValid(s) == Len(s) = 24 /\ \A i \in 1..Len(s) : s[i] \in HexDigits

BookingStatus == {"pending", "confirmed", "completed", "cancelled"}

\* The bookings the booking collection may hold when the process starts:
\* the store is persistent and outlives the process.
InitialBookings ==
  { << >>,
    << [_id |-> Oid1, service_name |-> "Car Wash", status |-> "pending",
        quoted_price |-> 4300],
       [_id |-> Oid2, service_name |-> "Tyre Puncture", status |-> "completed",
        quoted_price |-> 3700] >> }

\* The database the process starts on, with the handle configured: any of
\* the catalogs with no booking, or the default catalog with stored bookings.
Init ==
  /\ db = TRUE
  /\ service \in InitialCatalogs
  /\ booking \in InitialBookings
  /\ booking = << >> \/ service = seed
  /\ pc = [p \in Callers |-> "idle"]
  /\ req = NoRequest
  /\ resp = NoResponse

\* -------------------------------------------------------- storage reads
\* db["service"].find({"is_active": True})
FindActive(coll) == SelectSeq(coll, LAMBDA d : d.is_active)

\* db["service"].find_one({"name": name}): the first document of that name.
RECURSIVE find_one(_, _)
find_one(coll, name) ==
  IF coll = << >> THEN None
  ELSE IF Head(coll).name = name THEN Some(Head(coll))
  ELSE find_one(Tail(coll), name)

\* ---------------------------------------------------------- list_services
\* GET /api/services, first storage call: the active services are read; the
\* handler answers at once when there is one (or no database), and goes on
\* to seed otherwise.
NeedsSeed(services) == services = << >> /\ db

ListServicesFind(p) ==
  /\ req = NoRequest
  /\ pc[p] = "idle"
  /\ LET services == IF db THEN FindActive(service) ELSE << >>
     IN  IF NeedsSeed(services)
         THEN /\ pc' = [pc EXCEPT ![p] = "insert"]
              /\ resp' = NoResponse
         ELSE /\ pc' = pc
              /\ resp' = [code |-> 200, services |-> services]
  /\ req' = [op |-> "list_services", caller |-> p]
  /\ UNCHANGED << db, service, booking >>

\* Second storage call: insert_many(seed).
ListServicesInsert(p) ==
  /\ req = NoRequest
  /\ pc[p] = "insert"
  /\ service' = service \o seed
  /\ pc' = [pc EXCEPT ![p] = "find"]
  /\ req' = [op |-> "list_services", caller |-> p]
  /\ resp' = NoResponse
  /\ UNCHANGED << db, booking >>

\* Third storage call: the active services are read again and returned.
ListServicesReturn(p) ==
  /\ req = NoRequest
  /\ pc[p] = "find"
  /\ pc' = [pc EXCEPT ![p] = "idle"]
  /\ req' = [op |-> "list_services", caller |-> p]
  /\ resp' = [code |-> 200, services |-> FindActive(service)]
  /\ UNCHANGED << db, service, booking >>

\* ------------------------------------------------------------------ quote
\* Whether a distance from the center is inside the service area.
Inside(distance_km) == distance_km <= radius_km

\* The payloads of POST /api/quote.
QuoteServiceNames == {"Car Wash", "Small Repair", "Oil Change"}
PackageNames == {None, Some("Premium"), Some("Extended")}
AddonCodes == {"pickup_drop", "engine_check", "valet"}
AddonLists == UNION {[1..n -> AddonCodes] : n \in 0..MaxAddons}
Coordinates ==
  { [latitude |-> None, longitude |-> None],
    [latitude |-> Some(Center[1]), longitude |-> None] }
  \cup { [latitude |-> Some(p[1]), longitude |-> Some(p[2])] :
            p \in {PointBoundary, PointOutside} }

quote(payload) ==
  LET service_name == payload.service_name
      package_name == payload.package_name
      selected_addons == payload.selected_addons
      lat == payload.latitude
      lng == payload.longitude
  IN  IF ~db THEN [code |-> 500]
      ELSE LET svc == find_one(service, service_name)
           IN  IF IsNone(svc) THEN [code |-> 404]
               ELSE LET price_breakdown ==
                          compute_quote(Val(svc), package_name, selected_addons)
                    IN  IF ~IsNone(lat) /\ ~IsNone(lng)
                        THEN IF ~(IsFloat(lat) /\ IsFloat(lng))
                             THEN [code |-> 500]
                             ELSE LET distance_km == haversine_km(Val(lat), Val(lng))
                                  IN  [code |-> 200,
                                       total |-> price_breakdown.total,
                                       breakdown |-> price_breakdown,
                                       inside |-> Inside(distance_km),
                                       distance_km |-> Some(RoundKm2(distance_km))]
                        ELSE [code |-> 200,
                              total |-> price_breakdown.total,
                              breakdown |-> price_breakdown,
                              inside |-> TRUE,
                              distance_km |-> None]

\* Pricing requests without a location, and located requests for the plain
\* service.
QuotePayloads ==
  { [service_name |-> sn, package_name |-> pk, selected_addons |-> ad,
     latitude |-> None, longitude |-> None] :
      sn \in QuoteServiceNames, pk \in PackageNames,
      ad \in {None} \cup {Some(l) : l \in AddonLists} }
  \cup
  { [service_name |-> sn, package_name |-> None, selected_addons |-> None,
     latitude |-> co.latitude, longitude |-> co.longitude] :
      sn \in QuoteServiceNames, co \in Coordinates }

Quote ==
  /\ req = NoRequest
  /\ \E payload \in QuotePayloads :
       /\ req' = [op |-> "quote", payload |-> payload]
       /\ resp' = quote(payload)
  /\ UNCHANGED << db, service, booking, pc >>

\* --------------------------------------------------------- check_location
check_location(payload) ==
  IF ~(IsFloat(payload.latitude) /\ IsFloat(payload.longitude))
  THEN [code |-> 400]
  ELSE LET distance_km == haversine_km(Val(payload.latitude), Val(payload.longitude))
       IN  [code |-> 200,
            inside |-> Inside(distance_km),
            distance_km |-> RoundKm2(distance_km)]

CheckLocation ==
  /\ req = NoRequest
  /\ \E co \in Coordinates
              \cup {[latitude |-> Some("north"), longitude |-> Some("77.2090")]} :
       /\ req' = [op |-> "check_location", payload |-> co]
       /\ resp' = check_location(co)
  /\ UNCHANGED << db, service, booking, pc >>

\* --------------------------------------------------------- create_booking
\* BookingFields with the keys create_booking reads declared as well.
BookingFieldsWithQuote ==
  {"customer_name", "phone", "address", "vehicle_make", "vehicle_model",
   "service_name", "preferred_date", "preferred_time", "notes", "status",
   "quoted_price", "package_name", "selected_addons", "latitude", "longitude"}

\* The fields schemas.Booking declares.
BookingFields ==
  {"customer_name", "phone", "address", "vehicle_make", "vehicle_model",
   "service_name", "preferred_date", "preferred_time", "notes", "status"}

\* Request validation against schemas.Booking: service_name is a ServiceType
\* and status, when given, one of the four literals.  (The free-text fields
\* of the payload are taken as valid and left out.)
BookingValid(payload) ==
  /\ payload.service_name \in ServiceType
  /\ IsNone(payload.status) \/ Val(payload.status) \in BookingStatus

\* Booking(**payload): the declared fields only (pydantic drops the keys
\* the model does not declare), status defaulting to "pending".
ParseBooking(payload) ==
  [f \in (DOMAIN payload) \cap BookingFields |->
     IF f = "status"
     THEN IF IsNone(payload.status) THEN "pending" ELSE Val(payload.status)
     ELSE payload[f]]

\* Reading obj.f raises AttributeError unless the model declares f.
HasAttr(obj, f) == f \in DOMAIN obj

\* The identifier the store gives the next inserted document.
OidChars == << "a", "b", "c", "d", "e", "f" >>
FreshId(coll) == Repeat(OidChars[Len(coll) + 1], 24)

\* create_document("booking", data): the document is appended under a fresh
\* identifier, which is returned.
create_document(coll, data) ==
  LET bid == FreshId(coll)
  IN  [id |-> bid,
       coll |-> Append(coll, [_id |-> bid,
                              service_name |-> data.service_name,
                              status |-> data.status,
                              quoted_price |-> data.quoted_price])]

\* The handler of POST /api/bookings on a validated payload: the response
\* and the booking collection it leaves.
create_booking(payload) ==
  LET b == ParseBooking(payload)
      Fail(code, detail) ==
        [resp |-> [code |-> code, detail |-> detail], booking |-> booking]
  IN  IF ~db THEN Fail(500, "Database not configured")
      ELSE
      LET svc == find_one(service, b.service_name)
      IN  IF IsNone(svc) THEN Fail(404, "Service not found")
          ELSE IF ~HasAttr(b, "quoted_price")
          THEN Fail(500, "AttributeError")
          ELSE IF IsNone(b.quoted_price)
                  /\ ~(HasAttr(b, "package_name") /\ HasAttr(b, "selected_addons"))
          THEN Fail(500, "AttributeError")
          ELSE
          LET quoted_price ==
                IF IsNone(b.quoted_price)
                THEN compute_quote(Val(svc), b.package_name, b.selected_addons).total
                ELSE Val(b.quoted_price)
          IN  IF ~HasAttr(b, "latitude")
                 \/ (~IsNone(b.latitude) /\ ~HasAttr(b, "longitude"))
              THEN Fail(500, "AttributeError")
              ELSE IF ~IsNone(b.latitude) /\ ~IsNone(b.longitude)
                      /\ ~(IsFloat(b.latitude) /\ IsFloat(b.longitude))
              THEN Fail(500, "ValueError")
              ELSE IF ~IsNone(b.latitude) /\ ~IsNone(b.longitude)
                      /\ haversine_km(Val(b.latitude), Val(b.longitude)) > radius_km
              THEN Fail(400, "Address is outside service area")
              ELSE
              LET data == [service_name |-> b.service_name, status |-> b.status,
                           quoted_price |-> quoted_price]
                  made == create_document(booking, data)
              IN  [resp |-> [code |-> 200, id |-> made.id, status |-> b.status,
                             quoted_price |-> quoted_price],
                   booking |-> made.coll]

\* The payloads of POST /api/bookings.
BookingPayloads ==
  [service_name : {"Car Wash", "Small Repair", "Oil Change"},
   status : {None, Some("done")},
   quoted_price : {None, Some(5000)},
   package_name : {None, Some("Premium")},
   selected_addons : {None, Some(<< "pickup_drop", "valet" >>)},
   latitude : {None} \cup {Some(p[1]) : p \in Points},
   longitude : {None} \cup {Some(p[2]) : p \in Points}]

CreateBooking ==
  /\ req = NoRequest
  /\ Len(booking) < MaxBookings
  /\ \E payload \in BookingPayloads :
       /\ [latitude |-> payload.latitude, longitude |-> payload.longitude]
            \in Coordinates
       /\ req' = [op |-> "create_booking", payload |-> payload]
       /\ IF BookingValid(payload)
          THEN LET out == create_booking(payload)
               IN  resp' = out.resp /\ booking' = out.booking
          ELSE resp' = [code |-> 422, detail |-> "validation"] /\ booking' = booking
  /\ UNCHANGED << db, service, pc >>

\* -------------------------------------------------- update_booking_status
\* update_one({"_id": oid}, {"$set": {"status": new_status}}): the first
\* document of that identifier gets the status.
RECURSIVE update_one(_, _, _)
update_one(coll, oid, new_status) ==
  IF coll = << >> THEN << >>
  ELSE IF Head(coll)._id = oid
       THEN << [Head(coll) EXCEPT !.status = new_status] >> \o Tail(coll)
       ELSE << Head(coll) >> \o update_one(Tail(coll), oid, new_status)

matched_count(coll, oid) ==
  IF \E i \in 1..Len(coll) : coll[i]._id = oid THEN 1 ELSE 0

\* StatusAllowed testing only that a status is given.
StatusAllowedAny(new_status) == ~IsNone(new_status)

\* The status values the handler lets through.
StatusAllowed(new_status) ==
  ~IsNone(new_status)
  /\ Val(new_status) \in {"pending", "confirmed", "completed", "cancelled"}

\* The handler of PATCH /api/bookings/{booking_id}/status: the response and
\* the booking collection it leaves.
update_booking_status(booking_id, payload) ==
  LET new_status == payload.status
      Fail(code, detail) ==
        [resp |-> [code |-> code, detail |-> detail], booking |-> booking]
  IN  IF ~db THEN Fail(500, "Database not configured")
      ELSE IF ~StatusAllowed(new_status) THEN Fail(400, "Invalid status")
      ELSE IF ~ObjectIdValid(booking_id) THEN Fail(500, "InvalidId")
      ELSE IF matched_count(booking, booking_id) = 0
      THEN Fail(404, "Booking not found")
      ELSE [resp |-> [code |-> 200, id |-> booking_id, status |-> Val(new_status)],
            booking |-> update_one(booking, booking_id, Val(new_status))]

\* The identifiers and payloads of the status requests.
BookingIds == {Oid1, Oid2, Oid3, Repeat("a", 23), Repeat("z", 24)}
StatusPayloads ==
  {[status |-> None], [status |-> Some("done")]}
  \cup {[status |-> Some(s)] : s \in BookingStatus}

UpdateBookingStatus ==
  /\ req = NoRequest
  /\ \E booking_id \in BookingIds, payload \in StatusPayloads :
       LET out == update_booking_status(booking_id, payload)
       IN  /\ req' = [op |-> "update_booking_status", booking_id |-> booking_id,
                      payload |-> payload]
           /\ resp' = out.resp
           /\ booking' = out.booking
  /\ UNCHANGED << db, service, pc >>

\* ------------------------------------------------------------ the system
\* The response of the observed request is delivered.
Respond ==
  /\ req # NoRequest
  /\ req' = NoRequest
  /\ resp' = NoResponse
  /\ UNCHANGED << db, service, booking, pc >>

Next ==
  \/ \E p \in Callers : ListServicesFind(p)
  \/ \E p \in Callers : ListServicesInsert(p)
  \/ \E p \in Callers : ListServicesReturn(p)
  \/ Quote
  \/ CheckLocation
  \/ CreateBooking
  \/ UpdateBookingStatus
  \/ Respond

Spec == Init /\ [][Next]_vars

\* ================================================================ claims
\* C1: for every service record, package name and add-on list, compute_quote
\* returns total = round(base_price * multiplier + the prices of the matched
\* add-ons, 2) with total >= 0, where multiplier is that of the package of
\* this service named by the request, and 1.0 when no name is given or no
\* package of this service has that name.
C1_QuoteTotal ==
  (req.op = "quote" /\ resp.code = 200) =>
    LET svc == Val(find_one(service, req.payload.service_name))
        pk == req.payload.package_name
        own == IF svc.name \in ServiceType
               THEN {PRICING_PACKAGES[svc.name][i] :
                       i \in DOMAIN PRICING_PACKAGES[svc.name]}
               ELSE {}
        matched == {p \in own : ~IsNone(pk) /\ p.name = Val(pk)}
        multiplier ==
          IF matched = {} THEN 10 ELSE (CHOOSE p \in matched : TRUE).multiplier
        codes == IF IsNone(req.payload.selected_addons) THEN << >>
                 ELSE Val(req.payload.selected_addons)
        price(c) ==
          IF \E i \in DOMAIN PRICING_ADDONS : PRICING_ADDONS[i].code = c
          THEN PRICING_ADDONS[CHOOSE i \in DOMAIN PRICING_ADDONS :
                                PRICING_ADDONS[i].code = c].price
          ELSE 0
        sum[i \in 0..Len(codes)] ==
          IF i = 0 THEN 0 ELSE sum[i - 1] + price(codes[i])
    IN  /\ resp.breakdown.multiplier = multiplier
        /\ resp.total = Round2(svc.base_price * multiplier + 10 * sum[Len(codes)])
        /\ resp.total >= 0

\* A quote of the 19.99 car wash with the Premium package and two add-ons,
\* one of them unknown: round(19.99 * 1.4 + 8.00, 2) = 35.99.
C1_Witness ==
  /\ req.op = "quote"
  /\ req.payload.service_name = "Car Wash"
  /\ req.payload.package_name = Some("Premium")
  /\ req.payload.selected_addons = Some(<< "valet", "pickup_drop" >>)
  /\ resp.code = 200
  /\ resp.breakdown.base_price = 1999
  /\ resp.breakdown.multiplier = 14
  /\ resp.total = 3599

\* C2: booking creation with coordinates farther from the center than
\* radius_km fails with OutOfServiceArea (and persists nothing).
C2_OutOfAreaRejected ==
  (/\ req.op = "create_booking"
   /\ BookingValid(req.payload)
   /\ ~IsNone(find_one(service, req.payload.service_name))
   /\ IsFloat(req.payload.latitude) /\ IsFloat(req.payload.longitude)
   /\ haversine_km(Val(req.payload.latitude), Val(req.payload.longitude)) > radius_km)
  => (resp.code = 400 /\ resp.detail = "Address is outside service area")

\* C3: booking creation without quoted_price, for a service the catalog
\* resolves and with coordinates absent or inside the area, succeeds,
\* persists one booking whose quoted_price is compute_quote's total for the
\* request's package and add-ons, and returns that price.
C3_QuoteFrozen ==
  (/\ req.op = "create_booking"
   /\ BookingValid(req.payload)
   /\ IsNone(req.payload.quoted_price)
   /\ ~IsNone(find_one(service, req.payload.service_name))
   /\ \/ IsNone(req.payload.latitude)
      \/ IsNone(req.payload.longitude)
      \/ Inside(haversine_km(Val(req.payload.latitude), Val(req.payload.longitude))))
  => LET total == compute_quote(Val(find_one(service, req.payload.service_name)),
                                req.payload.package_name,
                                req.payload.selected_addons).total
     IN  /\ resp.code = 200
         /\ resp.quoted_price = total
         /\ booking # << >>
         /\ booking[Len(booking)]._id = resp.id
         /\ booking[Len(booking)].quoted_price = total

\* C4: every successful setStatus follows an edge of the lifecycle graph
\* pending -> {confirmed, cancelled}, confirmed -> {completed, cancelled}:
\* a completed or cancelled booking never changes status again and a pending
\* booking never goes directly to completed.
C4_LifecycleEdges ==
  [][(req'.op = "update_booking_status" /\ resp'.code = 200) =>
       \A i \in DOMAIN booking :
         booking'[i].status # booking[i].status =>
           << booking[i].status, booking'[i].status >> \in
             {<< "pending", "confirmed" >>, << "pending", "cancelled" >>,
              << "confirmed", "completed" >>, << "confirmed", "cancelled" >>}]_vars

\* C5: the status of every stored booking is always one of pending,
\* confirmed, completed, cancelled; a setStatus with any other value, or with
\* none, fails with InvalidInput whether or not the booking exists and
\* leaves every stored booking unchanged.
C5_StatusEnumerated ==
  /\ [](\A i \in DOMAIN booking : booking[i].status \in BookingStatus)
  /\ [][(/\ req'.op = "update_booking_status"
         /\ \/ IsNone(req'.payload.status)
            \/ Val(req'.payload.status) \notin BookingStatus)
        => (/\ resp'.code = 400
            /\ resp'.detail = "Invalid status"
            /\ booking' = booking)]_vars

\* A setStatus of a stored booking to "done" was refused.
C5_Witness ==
  /\ req.op = "update_booking_status"
  /\ req.payload.status = Some("done")
  /\ \E i \in DOMAIN booking : booking[i]._id = req.booking_id
  /\ resp.code = 400

C7_SetStatusFrame ==
  [][(req'.op = "update_booking_status" /\ StatusAllowed(req'.payload.status)) =>
       LET id == req'.booking_id
           new_status == Val(req'.payload.status)
       IN  IF \A i \in DOMAIN booking : booking[i]._id # id
           THEN /\ resp'.code = 404
                /\ resp'.detail = "Booking not found"
                /\ booking' = booking
           ELSE /\ resp' = [code |-> 200, id |-> id, status |-> new_status]
                /\ Len(booking') = Len(booking)
                /\ \A i \in DOMAIN booking :
                     booking'[i] = IF booking[i]._id = id
                                   THEN [booking[i] EXCEPT !.status = new_status]
                                   ELSE booking[i]]_vars

\* C8: the add-on breakdown of compute_quote is the input list restricted to
\* the codes of the add-on catalog, in input order and one entry per
\* occurrence; an unknown code adds nothing to the total, a repeated code
\* adds its price each time, and no input list makes the quote fail.
C8_AddonBreakdown ==
  (req.op = "quote" /\ ~IsNone(find_one(service, req.payload.service_name))) =>
    LET svc == Val(find_one(service, req.payload.service_name))
        codes == IF IsNone(req.payload.selected_addons) THEN << >>
                 ELSE Val(req.payload.selected_addons)
        known == {PRICING_ADDONS[i].code : i \in DOMAIN PRICING_ADDONS}
        kept == SelectSeq(codes, LAMBDA c : c \in known)
        entry(c) == PRICING_ADDONS[CHOOSE i \in DOMAIN PRICING_ADDONS :
                                     PRICING_ADDONS[i].code = c]
        sum[i \in 0..Len(kept)] ==
          IF i = 0 THEN 0 ELSE sum[i - 1] + entry(kept[i]).price
        bare == compute_quote(svc, req.payload.package_name, None).total
    IN  /\ resp.code = 200
        /\ Len(resp.breakdown.addons) = Len(kept)
        /\ \A i \in 1..Len(kept) : resp.breakdown.addons[i] = entry(kept[i])
        /\ resp.total = bare + sum[Len(kept)]

\* A quote whose add-on list repeats a code around an unknown one: the
\* breakdown holds the repeated add-on twice and the total counts it twice.
C8_Witness ==
  /\ req.op = "quote"
  /\ req.payload.service_name = "Small Repair"
  /\ req.payload.package_name = None
  /\ req.payload.selected_addons = Some(<< "engine_check", "valet", "engine_check" >>)
  /\ resp.code = 200
  /\ Len(resp.breakdown.addons) = 2
  /\ resp.total = 4000 + 1200 + 1200

\* C9: the boundary of the service area is inclusive and the same in every
\* operation: check-location and quote report inside exactly when
\* distance <= radius_km, and booking creation rejects a request for its
\* location exactly when check-location reports inside = false for the same
\* coordinates.
C9_SameBoundary ==
  LET located(payload) == IsFloat(payload.latitude) /\ IsFloat(payload.longitude)
      distance(payload) == haversine_km(Val(payload.latitude), Val(payload.longitude))
  IN  /\ (req.op = "check_location" /\ located(req.payload)) =>
           (resp.code = 200 /\ resp.inside = (distance(req.payload) <= radius_km))
      /\ (req.op = "quote" /\ resp.code = 200 /\ located(req.payload)) =>
           resp.inside = (distance(req.payload) <= radius_km)
      /\ (/\ req.op = "create_booking"
          /\ BookingValid(req.payload)
          /\ ~IsNone(find_one(service, req.payload.service_name))
          /\ located(req.payload)) =>
           ((resp.code = 400 /\ resp.detail = "Address is outside service area")
              <=> ~check_location(req.payload).inside)

\* C10: list-active-services inserts the defaults only into a catalog with
\* no record at all, and at most once: from an empty catalog, whatever the
\* interleaving of concurrent calls, the catalog holds exactly one record
\* per default service name once it has been seeded.
C10_SeededOnce ==
  (/\ service # << >>
   /\ \A i \in DOMAIN service : service[i] = seed[((i - 1) % Len(seed)) + 1])
  => \A n \in ServiceType :
       Cardinality({i \in DOMAIN service : service[i].name = n}) = 1

====
